---- MODULE Spec2Model ----
(***************************************************************************)
(* MarketingAgent (src/rag-agents/marketing-agent.py): a rule-based        *)
(* builder that derives a MarketingStrategy from the genre and tone of a   *)
(* book_info dict and from the agent's knowledge table.                    *)
(*                                                                         *)
(* Python objects that can be mutated (lists and dicts) live in a heap and *)
(* are passed by reference, as in the interpreter, so that sharing of      *)
(* storage between the knowledge table and a returned strategy is visible. *)
(* A str on which the code works character by character (lower(), `in`,    *)
(* f-string interpolation, dict keys looked up by such a str) is a         *)
(* sequence of one-character strings; a str that is only passed along      *)
(* (audience and timeline texts, the keys of book_info) is a TLA+ string.  *)
(* The budget percentages 30.0, 25.0, 20.0, 15.0 are floats holding whole  *)
(* numbers; they and their sums (at most a few hundred) are exact in       *)
(* binary floating point, and are modelled as integers.                    *)
(***************************************************************************)
EXTENDS Integers, Sequences, FiniteSets, TLC

VARIABLES
    heap,            \* address -> the list or dict stored there
    knowledge_base,  \* self.knowledge_base: address of the agent's table
    book_info,       \* the caller's book_info dict (address), or None
    strategy,        \* the caller's last MarketingStrategy (references), or None
    outcome,         \* what the last call did: the exception raised, or the
                     \* strategy as it was when returned (by value)
    edits,           \* how often the caller changed the returned channel list
    prev,            \* an earlier call remembered: its book_info and outcome
    since,           \* what happened after it: a further call, an edit by the caller
    pc,              \* per thread: the statement it is about to execute
    frame,           \* per thread: the locals of its create_marketing_strategy
    result,          \* per thread: what its call returned (by value), and whether
                     \* another call was under way during it
    channels_in,     \* the list handed to _allocate_budget directly (address)
    allocations_out  \* the dict _allocate_budget returned for it (by value)

vars == <<heap, knowledge_base, book_info, strategy, outcome, edits, prev, since,
          pc, frame, result, channels_in, allocations_out>>

\* ---------------------------------------------------------------- strings

SocialMedia == <<"S","o","c","i","a","l"," ","M","e","d","i","a">>
BookBloggers == <<"B","o","o","k"," ","B","l","o","g","g","e","r","s">>
EmailMarketing == <<"E","m","a","i","l"," ","M","a","r","k","e","t","i","n","g">>
Influencer == <<"I","n","f","l","u","e","n","c","e","r">>
Ads == <<"A","d","s">>
Fantasy == <<"F","a","n","t","a","s","y">>
Romance == <<"R","o","m","a","n","c","e">>
Mystery == <<"M","y","s","t","e","r","y">>
Business == <<"B","u","s","i","n","e","s","s">>
General == <<"G","e","n","e","r","a","l">>
Neutral == <<"N","e","u","t","r","a","l">>

audience_segments ==
    << <<"Y","o","u","n","g"," ","A","d","u","l","t"," ","(","1","3","-","1","8",")">>,
       <<"N","e","w"," ","A","d","u","l","t"," ","(","1","8","-","2","5",")">>,
       <<"A","d","u","l","t"," ","(","2","5","-","4","5",")">>,
       <<"M","a","t","u","r","e"," ","A","d","u","l","t"," ","(","4","5","+",")">>,
       <<"A","c","a","d","e","m","i","c">>,
       <<"P","r","o","f","e","s","s","i","o","n","a","l">> >>
marketing_channels ==
    << <<"S","o","c","i","a","l"," ","M","e","d","i","a"," ","(","I","n","s","t","a","g","r","a",
        "m",","," ","T","i","k","T","o","k",","," ","T","w","i","t","t","e","r",")">>,
       <<"B","o","o","k"," ","B","l","o","g","g","e","r","s">>,
       <<"I","n","f","l","u","e","n","c","e","r"," ","P","a","r","t","n","e","r","s","h","i","p","s">>,
       <<"B","o","o","k"," ","C","l","u","b","s">>,
       <<"L","i","b","r","a","r","i","e","s">>,
       <<"B","o","o","k","s","t","o","r","e","s">>,
       <<"O","n","l","i","n","e"," ","A","d","s">>,
       <<"E","m","a","i","l"," ","M","a","r","k","e","t","i","n","g">> >>
FantasyChannels ==
    << <<"F","a","n","t","a","s","y"," ","c","o","n","v","e","n","t","i","o","n","s">>,
       <<"G","a","m","i","n","g"," ","c","o","m","m","u","n","i","t","i","e","s">>,
       <<"C","o","s","p","l","a","y"," ","g","r","o","u","p","s">> >>
RomanceChannels ==
    << <<"R","o","m","a","n","c","e"," ","b","o","o","k"," ","c","l","u","b","s">>,
       <<"D","a","t","i","n","g"," ","a","p","p","s">>,
       <<"W","e","d","d","i","n","g"," ","b","l","o","g","s">> >>
MysteryChannels ==
    << <<"T","r","u","e"," ","c","r","i","m","e"," ","p","o","d","c","a","s","t","s">>,
       <<"D","e","t","e","c","t","i","v","e"," ","f","o","r","u","m","s">>,
       <<"P","u","z","z","l","e"," ","c","o","m","m","u","n","i","t","i","e","s">> >>
\* A slip in the table: a niche channel whose name matches the "Ads" pattern.
BusinessChannels_linkedin_ads ==
    << <<"L","i","n","k","e","d","I","n"," ","A","d","s">>,
       <<"P","r","o","f","e","s","s","i","o","n","a","l"," ","a","s","s","o","c","i","a","t","i","o","n","s">>,
       <<"I","n","d","u","s","t","r","y"," ","c","o","n","f","e","r","e","n","c","e","s">> >>
BusinessChannels ==
    << <<"L","i","n","k","e","d","I","n">>,
       <<"P","r","o","f","e","s","s","i","o","n","a","l"," ","a","s","s","o","c","i","a","t","i",
        "o","n","s">>,
       <<"I","n","d","u","s","t","r","y"," ","c","o","n","f","e","r","e","n","c","e","s">> >>

\* The literal parts of the three f-strings of _create_key_messaging.
Msg1a == <<"D","i","s","c","o","v","e","r"," ","a"," ">>
Msg1b == <<" ">>
Msg1c ==
    <<" ","s","t","o","r","y"," ","t","h","a","t"," ","w","i","l","l"," ","k","e","e","p"," ",
      "y","o","u"," ","t","u","r","n","i","n","g"," ","p","a","g","e","s">>
Msg2a ==
    <<"P","e","r","f","e","c","t"," ","f","o","r"," ","r","e","a","d","e","r","s"," ","w","h",
      "o"," ","l","o","v","e"," ">>
Msg2b == <<" ","w","i","t","h"," ">>
Msg2c == <<" ","e","l","e","m","e","n","t","s">>
Msg3a == <<"A"," ","m","u","s","t","-","r","e","a","d"," ","f","o","r"," ">>
Msg3b == <<" ","e","n","t","h","u","s","i","a","s","t","s">>

\* Inputs of the test at the end of the file, and further inputs.
Epic == <<"E","p","i","c">>
DragonsCall == <<"T","h","e"," ","D","r","a","g","o","n","'","s"," ","C","a","l","l">>
WizardDescription ==
    <<"A"," ","y","o","u","n","g"," ","w","i","z","a","r","d"," ","d","i","s","c","o","v","e",
      "r","s"," ","t","h","e","i","r"," ","d","e","s","t","i","n","y">>
fantasy_lowercase == <<"f","a","n","t","a","s","y">>
SocialMediaAds == <<"S","o","c","i","a","l"," ","M","e","d","i","a"," ","A","d","s">>
InfluencerAds == <<"I","n","f","l","u","e","n","c","e","r"," ","A","d","s">>
OnlineAds == <<"O","n","l","i","n","e"," ","A","d","s">>
social_media_lowercase == <<"s","o","c","i","a","l"," ","m","e","d","i","a">>

\* ------------------------------------------------------- Python built-ins

\* None as a value of book_info: a one-element sequence whose element is no
\* character, so that it is no str and still compares with every str.
PyNone == <<"NoneType">>
IsStr(v) == v # PyNone

UpperCase ==
    <<"A","B","C","D","E","F","G","H","I","J","K","L","M",
      "N","O","P","Q","R","S","T","U","V","W","X","Y","Z">>
LowerCase ==
    <<"a","b","c","d","e","f","g","h","i","j","k","l","m",
      "n","o","p","q","r","s","t","u","v","w","x","y","z">>

\* str.lower() on ASCII text.
lower(s) ==
    [i \in 1..Len(s) |->
        IF \E k \in 1..Len(UpperCase) : UpperCase[k] = s[i]
        THEN LowerCase[CHOOSE k \in 1..Len(UpperCase) : UpperCase[k] = s[i]]
        ELSE s[i]]

\* `pattern in s` for two strs: a case-sensitive substring test.
Contains(pattern, s) ==
    \E i \in 0..(Len(s) - Len(pattern)) : SubSeq(s, i + 1, i + Len(pattern)) = pattern

\* dict.get(key, default) and d[key] = value.
Get(d, key, default) == IF key \in DOMAIN d THEN d[key] ELSE default
Put(d, key, value) == [k \in DOMAIN d \cup {key} |-> IF k = key THEN value ELSE d[k]]

\* An optional value: None is the empty sequence.
None == <<>>
Some(x) == <<x>>

\* ------------------------------------------------------------------- heap

\* A new object gets the lowest address that is free.
Alloc(h) ==
    CHOOSE a \in 1..(Cardinality(DOMAIN h) + 1) :
        a \notin DOMAIN h /\ \A b \in 1..(a - 1) : b \in DOMAIN h
New(h, value) == [heap |-> h @@ (Alloc(h) :> value), ref |-> Alloc(h)]

\* What a statement hands back: the heap after it, the value it returned and
\* the exception it raised, if any.
NoExc == "no exception"
AttributeError == "AttributeError"
Return(h, value) == [heap |-> h, ret |-> value, exc |-> NoExc]
Raise(h, e) == [heap |-> h, ret |-> 0, exc |-> e]

\* ------------------------------------------------------------ the agent

\* MarketingAgent.__init__: the table of _load_marketing_knowledge, a dict
\* of two lists and a dict of four lists.
InitHeap ==
    (1 :> [audience_segments |-> 2, marketing_channels |-> 3, genre_marketing |-> 4])
    @@ (2 :> audience_segments)
    @@ (3 :> marketing_channels)
    @@ (4 :> ((Fantasy :> 5) @@ (Romance :> 6) @@ (Mystery :> 7) @@ (Business :> 8)))
    @@ (5 :> FantasyChannels)
    @@ (6 :> RomanceChannels)
    @@ (7 :> MysteryChannels)
    @@ (8 :> BusinessChannels)
AgentObjects == DOMAIN InitHeap

\* A slip: the genre compared without regard to case.
_analyze_target_audience_ignore_case(h, bi) ==
    LET genre == lower(Get(h[bi], "genre", General))
    IN  IF genre = lower(Fantasy)
        THEN Return(h, "Young Adult (13-18) and Adult (25-45) fantasy enthusiasts")
        ELSE IF genre = lower(Romance)
        THEN Return(h, "Adult (25-45) romance readers, primarily female audience")
        ELSE IF genre = lower(Business)
        THEN Return(h, "Professional (25-45) business professionals and entrepreneurs")
        ELSE Return(h, "General Adult (25-45) readers")

_analyze_target_audience(h, bi) ==
    LET genre == Get(h[bi], "genre", General)
        tone == Get(h[bi], "tone", Neutral)
    IN  IF genre = Fantasy
        THEN Return(h, "Young Adult (13-18) and Adult (25-45) fantasy enthusiasts")
        ELSE IF genre = Romance
        THEN Return(h, "Adult (25-45) romance readers, primarily female audience")
        ELSE IF genre = Business
        THEN Return(h, "Professional (25-45) business professionals and entrepreneurs")
        ELSE Return(h, "General Adult (25-45) readers")

\* A slip: the genre interpolated as given, not lower-cased.
_create_key_messaging_no_lower(h, bi) ==
    LET genre == Get(h[bi], "genre", General)
        tone == Get(h[bi], "tone", Neutral)
        messages ==
            << Msg1a \o lower(tone) \o Msg1b \o genre \o Msg1c,
               Msg2a \o genre \o Msg2b \o lower(tone) \o Msg2c,
               Msg3a \o genre \o Msg3b >>
        n == New(h, messages)
    IN  IF ~IsStr(tone) \/ ~IsStr(genre)
        THEN Raise(h, AttributeError)
        ELSE Return(n.heap, n.ref)

\* A slip: book_info["genre"] in place of book_info.get("genre", "General").
_create_key_messaging_subscript(h, bi) ==
    LET tone == Get(h[bi], "tone", Neutral)
        genre == h[bi]["genre"]
        messages ==
            << Msg1a \o lower(tone) \o Msg1b \o lower(genre) \o Msg1c,
               Msg2a \o lower(genre) \o Msg2b \o lower(tone) \o Msg2c,
               Msg3a \o lower(genre) \o Msg3b >>
        n == New(h, messages)
    IN  IF "genre" \notin DOMAIN h[bi]
        THEN Raise(h, "KeyError")
        ELSE IF ~IsStr(tone) \/ ~IsStr(genre)
        THEN Raise(h, AttributeError)
        ELSE Return(n.heap, n.ref)

_create_key_messaging(h, bi) ==
    LET genre == Get(h[bi], "genre", General)
        tone == Get(h[bi], "tone", Neutral)
        messages ==
            << Msg1a \o lower(tone) \o Msg1b \o lower(genre) \o Msg1c,
               Msg2a \o lower(genre) \o Msg2b \o lower(tone) \o Msg2c,
               Msg3a \o lower(genre) \o Msg3b >>
        n == New(h, messages)
    IN  IF ~IsStr(tone) \/ ~IsStr(genre)
        THEN Raise(h, AttributeError)    \* None has no attribute 'lower'
        ELSE Return(n.heap, n.ref)

\* A slip: return genre_channels + base_channels.
_select_promotional_channels_niche_first(h, kb, bi) ==
    LET genre == Get(h[bi], "genre", General)
        base_channels == New(h, <<SocialMedia, BookBloggers, EmailMarketing>>)
        default == New(base_channels.heap, <<>>)
        h2 == default.heap
        genre_channels == Get(h2[h2[kb].genre_marketing], genre, default.ref)
        n == New(h2, h2[genre_channels] \o h2[base_channels.ref])
    IN  Return(n.heap, n.ref)

\* A slip: genre_channels[0:0] = base_channels; return genre_channels, which
\* builds the result in the list of the table.
_select_promotional_channels_in_place(h, kb, bi) ==
    LET genre == Get(h[bi], "genre", General)
        base_channels == New(h, <<SocialMedia, BookBloggers, EmailMarketing>>)
        default == New(base_channels.heap, <<>>)
        h2 == default.heap
        genre_channels == Get(h2[h2[kb].genre_marketing], genre, default.ref)
    IN  Return([h2 EXCEPT ![genre_channels] = h2[base_channels.ref] \o @], genre_channels)

_select_promotional_channels(h, kb, bi) ==
    LET genre == Get(h[bi], "genre", General)
        base_channels == New(h, <<SocialMedia, BookBloggers, EmailMarketing>>)
        default == New(base_channels.heap, <<>>)    \* the [] of .get(genre, [])
        h2 == default.heap
        genre_channels == Get(h2[h2[kb].genre_marketing], genre, default.ref)
        n == New(h2, h2[base_channels.ref] \o h2[genre_channels])
    IN  Return(n.heap, n.ref)

\* A slip: the last phase left out.
_create_launch_timeline_three(h) ==
    LET n == New(h,
            ("Pre-launch (4 weeks)" :> "Social media teasers, influencer outreach")
            @@ ("Launch week" :> "Major promotional push, book blogger reviews")
            @@ ("Post-launch (2 weeks)" :> "Sustained social media, reader engagement"))
    IN  Return(n.heap, n.ref)

_create_launch_timeline(h) ==
    LET n == New(h,
            ("Pre-launch (4 weeks)" :> "Social media teasers, influencer outreach")
            @@ ("Launch week" :> "Major promotional push, book blogger reviews")
            @@ ("Post-launch (2 weeks)" :> "Sustained social media, reader engagement")
            @@ ("Ongoing" :> "Community building, reader feedback integration"))
    IN  Return(n.heap, n.ref)

total_budget == 100

\* A slip: the "Ads" test placed before the "Influencer" test.
Percentage_ads_first(channel) ==
    IF Contains(SocialMedia, channel) THEN 30
    ELSE IF Contains(Ads, channel) THEN 20
    ELSE IF Contains(Influencer, channel) THEN 25
    ELSE 15

\* The percentage the loop body of _allocate_budget gives one channel.
Percentage(channel) ==
    IF Contains(SocialMedia, channel) THEN 30
    ELSE IF Contains(Influencer, channel) THEN 25
    ELSE IF Contains(Ads, channel) THEN 20
    ELSE 15

\* for channel in channels: allocations[channel] = ...
RECURSIVE BudgetLoop(_, _)
BudgetLoop(channels, allocations) ==
    IF channels = <<>> THEN allocations
    ELSE BudgetLoop(Tail(channels),
                    Put(allocations, Head(channels), Percentage(Head(channels))))

_allocate_budget(h, channels) ==
    LET n == New(h, BudgetLoop(h[channels], <<>>))
    IN  Return(n.heap, n.ref)

create_marketing_strategy(h, kb, bi) ==
    LET target_audience == _analyze_target_audience(h, bi)
        key_messaging == _create_key_messaging(target_audience.heap, bi)
        promotional_channels == _select_promotional_channels(key_messaging.heap, kb, bi)
        launch_timeline == _create_launch_timeline(promotional_channels.heap)
        budget_allocation == _allocate_budget(launch_timeline.heap, promotional_channels.ret)
    IN  IF key_messaging.exc # NoExc THEN key_messaging
        ELSE Return(budget_allocation.heap,
                    [target_audience |-> target_audience.ret,
                     key_messaging |-> key_messaging.ret,
                     promotional_channels |-> promotional_channels.ret,
                     launch_timeline |-> launch_timeline.ret,
                     budget_allocation |-> budget_allocation.ret])

\* A MarketingStrategy by value: its lists and dicts read out of the heap.
Snapshot(h, s) ==
    [target_audience |-> s.target_audience,
     key_messaging |-> h[s.key_messaging],
     promotional_channels |-> h[s.promotional_channels],
     launch_timeline |-> h[s.launch_timeline],
     budget_allocation |-> h[s.budget_allocation]]

\* The objects a strategy refers to.
Refs(s) == <<s.key_messaging, s.promotional_channels, s.launch_timeline, s.budget_allocation>>

\* Reference counting frees an object no one refers to any more.  An address
\* is an identity and nothing else (the code never looks at one), so after
\* each statement the objects that stay are moved to the lowest addresses:
\* the agent's first, then the others in the order in which the variables
\* that hold them are listed.  Two references to one object stay so.
RECURSIVE Uniq(_, _)
Uniq(refs, seen) ==
    IF refs = <<>> THEN seen
    ELSE IF \E n \in 1..Len(seen) : seen[n] = Head(refs) THEN Uniq(Tail(refs), seen)
    ELSE Uniq(Tail(refs), Append(seen, Head(refs)))
Order(refs) == Uniq(refs, [n \in 1..Cardinality(AgentObjects) |-> n])
Rank(a, order) == CHOOSE n \in 1..Len(order) : order[n] = a
Compact(h, order) == [n \in 1..Len(order) |-> h[order[n]]]
Moved(s, order) ==
    [target_audience |-> s.target_audience,
     key_messaging |-> Rank(s.key_messaging, order),
     promotional_channels |-> Rank(s.promotional_channels, order),
     launch_timeline |-> Rank(s.launch_timeline, order),
     budget_allocation |-> Rank(s.budget_allocation, order)]

\* ------------------------------------------------------------ the caller

MaxEdits == 2

Opt(S) == {None} \cup {Some(x) : x \in S}

\* A book_info dict: each of the four keys is absent or bound to a value.
MakeDict(genre, tone, title, description) ==
    LET f == [genre |-> genre, tone |-> tone, title |-> title, description |-> description]
    IN  [k \in {x \in DOMAIN f : f[x] # None} |-> f[k][1]]

\* The dicts the caller passes: every genre of the table, the default genre,
\* a genre the table lacks, None, and no genre at all; likewise for the tone.
GenreValues == {Fantasy, Romance, Mystery, Business, General, fantasy_lowercase, PyNone}
ToneValues == {Neutral, Epic, PyNone}
BookInfos ==
    {MakeDict(g, t, ti, de) :
        g \in Opt(GenreValues), t \in Opt(ToneValues),
        ti \in Opt({DragonsCall}), de \in Opt({WizardDescription})}

\* The dicts of a caller that keeps and edits what it is returned.
FewBookInfos ==
    {MakeDict(g, t, None, None) : g \in Opt({Fantasy, Romance, General}), t \in Opt({Epic})}

NoCall == [arg |-> <<>>, exc |-> "not called", val |-> None]
Nothing == [called |-> FALSE, edited |-> FALSE]

Live(s) == IF s = None THEN <<>> ELSE Refs(s[1])

Init ==
    /\ heap = InitHeap
    /\ knowledge_base = 1
    /\ book_info = 0
    /\ strategy = None
    /\ outcome = NoCall
    /\ edits = 0
    /\ prev = NoCall
    /\ since = Nothing
    /\ pc = <<>>
    /\ frame = <<>>
    /\ result = <<>>
    /\ channels_in = 0
    /\ allocations_out = None

\* strategy = agent.create_marketing_strategy(book_info) with the dict at bi:
\* the caller's variable is bound to the result unless the call raises.
Invoke(h, bi) ==
    \E r \in {create_marketing_strategy(h, knowledge_base, bi)} :
    \E kept \in {IF r.exc = NoExc THEN Some(r.ret) ELSE strategy} :
    \E live \in {Order(<<bi>> \o Live(kept))} :
        /\ book_info' = Rank(bi, live)
        /\ strategy' = IF kept = None THEN None ELSE Some(Moved(kept[1], live))
        /\ edits' = IF r.exc = NoExc THEN 0 ELSE edits
        /\ outcome' = [arg |-> h[bi], exc |-> r.exc,
                       val |-> IF r.exc = NoExc THEN Some(Snapshot(r.heap, r.ret))
                               ELSE None]
        /\ heap' = Compact(r.heap, live)
        /\ since' = [since EXCEPT !.called = (prev # NoCall)]
        /\ UNCHANGED <<knowledge_base, prev, pc, frame, result, channels_in, allocations_out>>

\* The caller builds a new book_info dict and calls the agent with it.
Call(d) == Invoke(New(heap, d).heap, New(heap, d).ref)

\* The caller calls the agent again with the dict it already holds.
CallSame == book_info # 0 /\ Invoke(heap, book_info)

\* The caller appends to the promotional_channels list it was returned.
CallerAppend ==
    /\ strategy # None
    /\ edits < MaxEdits
    /\ heap' = [heap EXCEPT ![strategy[1].promotional_channels] = Append(@, OnlineAds)]
    /\ edits' = edits + 1
    /\ since' = [since EXCEPT !.edited = (prev # NoCall)]
    /\ UNCHANGED <<knowledge_base, book_info, strategy, outcome, prev,
                   pc, frame, result, channels_in, allocations_out>>

\* The caller overwrites the first element of that list.
CallerEdit ==
    /\ strategy # None
    /\ edits < MaxEdits
    /\ heap[strategy[1].promotional_channels] # <<>>
    /\ heap' = [heap EXCEPT ![strategy[1].promotional_channels] =
                                [@ EXCEPT ![1] = OnlineAds]]
    /\ edits' = edits + 1
    /\ since' = [since EXCEPT !.edited = (prev # NoCall)]
    /\ UNCHANGED <<knowledge_base, book_info, strategy, outcome, prev,
                   pc, frame, result, channels_in, allocations_out>>

\* The call just made is kept for comparison with a later one.
Remember ==
    /\ outcome # NoCall
    /\ prev' = outcome
    /\ since' = Nothing
    /\ UNCHANGED <<heap, knowledge_base, book_info, strategy, outcome, edits,
                   pc, frame, result, channels_in, allocations_out>>

\* Calls with any book_info, one after the other.
Next ==
    \/ \E d \in BookInfos : Call(d)
    \/ CallSame

Spec == Init /\ [][Next]_vars

\* A caller that keeps the strategy it was returned, edits its channel list
\* and calls again.
NextHistory ==
    \/ \E d \in FewBookInfos : Call(d)
    \/ CallSame
    \/ CallerAppend
    \/ CallerEdit
    \/ Remember

SpecHistory == Init /\ [][NextHistory]_vars

\* ------------------------------------------- _allocate_budget on any list

MaxList == 2

\* Channel names that match none, one or several of the three patterns.
ChannelNames ==
    {SocialMedia, BookBloggers, OnlineAds, SocialMediaAds, InfluencerAds,
     social_media_lowercase, marketing_channels[1], marketing_channels[3]}
ChannelLists == UNION {[1..n -> ChannelNames] : n \in 0..MaxList}

InitBudget ==
    /\ \E channels \in ChannelLists : heap = New(InitHeap, channels).heap
    /\ channels_in = Alloc(InitHeap)
    /\ allocations_out = None
    /\ knowledge_base = 1
    /\ book_info = 0
    /\ strategy = None
    /\ outcome = NoCall
    /\ edits = 0
    /\ prev = NoCall
    /\ since = Nothing
    /\ pc = <<>>
    /\ frame = <<>>
    /\ result = <<>>

\* allocations = agent._allocate_budget(channels)
AllocateBudget ==
    /\ allocations_out = None
    /\ \E r \in {_allocate_budget(heap, channels_in)} :
        /\ heap' = r.heap
        /\ allocations_out' = Some(r.heap[r.ret])
    /\ UNCHANGED <<knowledge_base, book_info, strategy, outcome, edits, prev, since,
                   pc, frame, result, channels_in>>

SpecBudget == InitBudget /\ [][AllocateBudget]_vars

\* ---------------------------------------- calls on one agent from threads

NThreads == 2
Threads == 1..NThreads

ThreadBookInfos ==
    {MakeDict(Some(Fantasy), Some(Epic), None, None),
     MakeDict(Some(Romance), None, None, None),
     MakeDict(Some(PyNone), None, None, None),
     MakeDict(None, None, None, None)}

\* The locals of create_marketing_strategy; 0 is a variable not yet bound.
\* overlapped records that another thread was inside the method while this
\* one executed a statement of it.
NoFrame ==
    [book_info |-> 0, target_audience |-> "", key_messaging |-> 0,
     promotional_channels |-> 0, launch_timeline |-> 0, budget_allocation |-> 0,
     overlapped |-> FALSE]
NoResult == [arg |-> <<>>, exc |-> "not called", val |-> None, overlapped |-> FALSE]
Busy(t) == \E u \in Threads \ {t} : pc[u] \notin {"idle", "done"}

FrameRefs(f) ==
    SelectSeq(<<f.book_info, f.key_messaging, f.promotional_channels,
                f.launch_timeline, f.budget_allocation>>, LAMBDA a : a # 0)
RECURSIVE AllRefs(_, _)
AllRefs(frames, t) ==
    IF t > NThreads THEN <<>> ELSE FrameRefs(frames[t]) \o AllRefs(frames, t + 1)
MovedFrame(f, order) ==
    LET to(a) == IF a = 0 THEN 0 ELSE Rank(a, order)
    IN  [book_info |-> to(f.book_info), target_audience |-> f.target_audience,
         key_messaging |-> to(f.key_messaging),
         promotional_channels |-> to(f.promotional_channels),
         launch_timeline |-> to(f.launch_timeline),
         budget_allocation |-> to(f.budget_allocation),
         overlapped |-> f.overlapped]

\* The heap and the frames after a statement of thread t that left them as h
\* and frames.
Settle(t, h, frames) ==
    \E order \in {Order(AllRefs(frames, 1))} :
        /\ heap' = Compact(h, order)
        /\ frame' = [u \in Threads |->
                IF u = t /\ frames[t].book_info # 0
                THEN [MovedFrame(frames[t], order) EXCEPT !.overlapped = @ \/ Busy(t)]
                ELSE MovedFrame(frames[u], order)]

InitThreads ==
    /\ heap = InitHeap
    /\ knowledge_base = 1
    /\ book_info = 0
    /\ strategy = None
    /\ outcome = NoCall
    /\ edits = 0
    /\ prev = NoCall
    /\ since = Nothing
    /\ pc = [t \in Threads |-> "idle"]
    /\ frame = [t \in Threads |-> NoFrame]
    /\ result = [t \in Threads |-> NoResult]
    /\ channels_in = 0
    /\ allocations_out = None

Others == <<knowledge_base, book_info, strategy, outcome, edits, prev, since,
            channels_in, allocations_out>>

\* Thread t calls create_marketing_strategy with a dict of its own.
Start(t, d) ==
    /\ pc[t] = "idle"
    /\ \E n \in {New(heap, d)} :
        Settle(t, n.heap, [frame EXCEPT ![t] = [NoFrame EXCEPT !.book_info = n.ref]])
    /\ pc' = [pc EXCEPT ![t] = "audience"]
    /\ UNCHANGED <<result, Others>>

\* target_audience = self._analyze_target_audience(book_info)
Audience(t) ==
    /\ pc[t] = "audience"
    /\ \E r \in {_analyze_target_audience(heap, frame[t].book_info)} :
        Settle(t, r.heap, [frame EXCEPT ![t].target_audience = r.ret])
    /\ pc' = [pc EXCEPT ![t] = "messaging"]
    /\ UNCHANGED <<result, Others>>

\* key_messaging = self._create_key_messaging(book_info); an exception ends
\* the call.
Messaging(t) ==
    /\ pc[t] = "messaging"
    /\ \E r \in {_create_key_messaging(heap, frame[t].book_info)} :
        IF r.exc = NoExc
        THEN /\ Settle(t, r.heap, [frame EXCEPT ![t].key_messaging = r.ret])
             /\ pc' = [pc EXCEPT ![t] = "channels"]
             /\ UNCHANGED result
        ELSE /\ Settle(t, r.heap, [frame EXCEPT ![t] = NoFrame])
             /\ pc' = [pc EXCEPT ![t] = "done"]
             /\ result' = [result EXCEPT ![t] =
                    [arg |-> heap[frame[t].book_info], exc |-> r.exc, val |-> None,
                     overlapped |-> frame[t].overlapped \/ Busy(t)]]
    /\ UNCHANGED Others

\* promotional_channels = self._select_promotional_channels(book_info)
Channels(t) ==
    /\ pc[t] = "channels"
    /\ \E r \in {_select_promotional_channels(heap, knowledge_base, frame[t].book_info)} :
        Settle(t, r.heap, [frame EXCEPT ![t].promotional_channels = r.ret])
    /\ pc' = [pc EXCEPT ![t] = "timeline"]
    /\ UNCHANGED <<result, Others>>

\* launch_timeline = self._create_launch_timeline()
Timeline(t) ==
    /\ pc[t] = "timeline"
    /\ \E r \in {_create_launch_timeline(heap)} :
        Settle(t, r.heap, [frame EXCEPT ![t].launch_timeline = r.ret])
    /\ pc' = [pc EXCEPT ![t] = "budget"]
    /\ UNCHANGED <<result, Others>>

\* budget_allocation = self._allocate_budget(promotional_channels)
Budget(t) ==
    /\ pc[t] = "budget"
    /\ \E r \in {_allocate_budget(heap, frame[t].promotional_channels)} :
        Settle(t, r.heap, [frame EXCEPT ![t].budget_allocation = r.ret])
    /\ pc' = [pc EXCEPT ![t] = "return"]
    /\ UNCHANGED <<result, Others>>

\* return MarketingStrategy(...)
ReturnStrategy(t) ==
    /\ pc[t] = "return"
    /\ result' = [result EXCEPT ![t] =
            [arg |-> heap[frame[t].book_info], exc |-> NoExc,
             val |-> Some(Snapshot(heap, frame[t])),
             overlapped |-> frame[t].overlapped \/ Busy(t)]]
    /\ Settle(t, heap, [frame EXCEPT ![t] = NoFrame])
    /\ pc' = [pc EXCEPT ![t] = "done"]
    /\ UNCHANGED Others

\* The thread has used the result and is ready for its next call.
Finish(t) ==
    /\ pc[t] = "done"
    /\ pc' = [pc EXCEPT ![t] = "idle"]
    /\ result' = [result EXCEPT ![t] = NoResult]
    /\ UNCHANGED <<heap, frame, Others>>

NextThreads ==
    \E t \in Threads :
        \/ \E d \in ThreadBookInfos : Start(t, d)
        \/ Audience(t)
        \/ Messaging(t)
        \/ Channels(t)
        \/ Timeline(t)
        \/ Budget(t)
        \/ ReturnStrategy(t)
        \/ Finish(t)

SpecThreads == InitThreads /\ [][NextThreads]_vars

\* What a call with the dict d returns on an agent no one else uses.
RunAlone(d) ==
    LET n == New(InitHeap, d)
        r == create_marketing_strategy(n.heap, 1, n.ref)
    IN  [arg |-> d, exc |-> r.exc,
         val |-> IF r.exc = NoExc THEN Some(Snapshot(r.heap, r.ret)) ELSE None]

\* ----------------------------------------------------------- properties

\* The genre and the tone a call works with: the default when the key is absent.
GenreOf(d) == IF "genre" \in DOMAIN d THEN d["genre"] ELSE General
ToneOf(d) == IF "tone" \in DOMAIN d THEN d["tone"] ELSE Neutral
Returned == outcome.exc = NoExc
Value == outcome.val[1]
TableGenres == {Fantasy, Romance, Mystery, Business}
NicheListOf(genre) ==
    CASE genre = Fantasy -> FantasyChannels
      [] genre = Romance -> RomanceChannels
      [] genre = Mystery -> MysteryChannels
      [] genre = Business -> BusinessChannels
      [] OTHER -> <<>>

\* C1: the promotional_channels a call returns are the three base channels
\* followed by the niche list the table holds for the genre, in table order,
\* and by nothing when the genre is absent or no key of the table.
C1_ChannelsAreBaseThenNiche ==
    Returned =>
        Value.promotional_channels =
            <<SocialMedia, BookBloggers, EmailMarketing>> \o NicheListOf(GenreOf(outcome.arg))

C1_Witness ==
    /\ Returned
    /\ outcome.arg = MakeDict(Some(Mystery), Some(Epic), None, None)
    /\ Len(Value.promotional_channels) = 6

\* C2: _allocate_budget gives every channel of its list the percentage of the
\* first pattern its name contains, "Social Media" 30, "Influencer" 25, "Ads"
\* 20, and 15 when it contains none, whatever else the list holds.
C2_Expected(channel, value) ==
    \/ Contains(SocialMedia, channel) /\ value = 30
    \/ ~Contains(SocialMedia, channel) /\ Contains(Influencer, channel) /\ value = 25
    \/ /\ ~Contains(SocialMedia, channel) /\ ~Contains(Influencer, channel)
       /\ Contains(Ads, channel) /\ value = 20
    \/ /\ ~Contains(SocialMedia, channel) /\ ~Contains(Influencer, channel)
       /\ ~Contains(Ads, channel) /\ value = 15
C2_BudgetByFirstMatch ==
    allocations_out # None =>
        LET channels == heap[channels_in]
            allocations == allocations_out[1]
        IN  /\ DOMAIN allocations = {channels[i] : i \in 1..Len(channels)}
            /\ \A i \in 1..Len(channels) : C2_Expected(channels[i], allocations[channels[i]])

C2_Witness ==
    /\ allocations_out # None
    /\ heap[channels_in] = <<SocialMediaAds, InfluencerAds>>
    /\ allocations_out[1][SocialMediaAds] = 30
    /\ allocations_out[1][InfluencerAds] = 25

\* C3: the audience depends on the genre alone, by exact match: Fantasy,
\* Romance and Business have their own audience, every other genre (Mystery
\* and an absent genre too) has the general one, whatever the tone.
C3_AudienceByGenre ==
    Returned =>
        Value.target_audience =
            CASE GenreOf(outcome.arg) = Fantasy ->
                    "Young Adult (13-18) and Adult (25-45) fantasy enthusiasts"
              [] GenreOf(outcome.arg) = Romance ->
                    "Adult (25-45) romance readers, primarily female audience"
              [] GenreOf(outcome.arg) = Business ->
                    "Professional (25-45) business professionals and entrepreneurs"
              [] OTHER -> "General Adult (25-45) readers"

C3_Witness ==
    /\ Returned
    /\ outcome.arg = MakeDict(Some(Mystery), Some(Epic), None, None)
    /\ Value.target_audience = "General Adult (25-45) readers"

\* C4 as claimed: key_messaging has 3 entries and each of them contains the
\* lower-cased genre and the lower-cased tone.
C4_EveryMessageHasGenreAndTone ==
    Returned =>
        /\ Len(Value.key_messaging) = 3
        /\ \A i \in 1..3 :
            /\ Contains(lower(GenreOf(outcome.arg)), Value.key_messaging[i])
            /\ Contains(lower(ToneOf(outcome.arg)), Value.key_messaging[i])

\* C4 as amended: key_messaging has 3 entries, each of them contains the
\* lower-cased genre, and the first two contain the lower-cased tone as well.
C4_MessagesHaveGenreFirstTwoTone ==
    Returned =>
        /\ Len(Value.key_messaging) = 3
        /\ \A i \in 1..3 : Contains(lower(GenreOf(outcome.arg)), Value.key_messaging[i])
        /\ \A i \in 1..2 : Contains(lower(ToneOf(outcome.arg)), Value.key_messaging[i])

C4_Witness ==
    /\ Returned
    /\ outcome.arg = MakeDict(Some(Fantasy), Some(Epic), None, None)
    /\ Value.key_messaging[3] = Msg3a \o fantasy_lowercase \o Msg3b
    /\ ~Contains(lower(Epic), Value.key_messaging[3])

\* C5: a call whose book_info binds each of its keys to a str, or not at
\* all, returns a strategy and raises nothing, and the strategy is the one of
\* the same dict with an absent genre set to "General" and an absent tone to
\* "Neutral".
AllStr(d) == \A k \in DOMAIN d : IsStr(d[k])
WithDefaults(d) == Put(Put(d, "genre", GenreOf(d)), "tone", ToneOf(d))
C5_TotalWithDefaults ==
    (outcome # NoCall /\ AllStr(outcome.arg)) =>
        /\ outcome.exc = NoExc
        /\ outcome.val # None
        /\ outcome.val = RunAlone(WithDefaults(outcome.arg)).val

C5_Witness ==
    /\ outcome # NoCall
    /\ DOMAIN outcome.arg = {"title"}
    /\ Returned
    /\ Value.key_messaging[3] = Msg3a \o lower(General) \o Msg3b

\* C6: a call made after other calls, and after edits of what they returned,
\* has the outcome of the earlier call with the same genre and tone.
C6_SameInputSameOutcome ==
    (/\ since.called
     /\ GenreOf(prev.arg) = GenreOf(outcome.arg)
     /\ ToneOf(prev.arg) = ToneOf(outcome.arg)) =>
        (prev.exc = outcome.exc /\ prev.val = outcome.val)

C6_Witness ==
    /\ since.called
    /\ since.edited
    /\ edits = 0
    /\ Returned
    /\ prev.arg = outcome.arg
    /\ outcome.arg = MakeDict(Some(Fantasy), Some(Epic), None, None)

\* C7: calls leave the knowledge table as it was built and the caller's
\* book_info as it was passed, and the returned promotional_channels is an
\* object of its own: no list of the table, and not the caller's dict; what
\* the caller did to a returned list does not show in a later call.
C7_TableAndBookInfoUntouched ==
    /\ knowledge_base = 1
    /\ \A a \in AgentObjects : heap[a] = InitHeap[a]
    /\ (outcome # NoCall => heap[book_info] = outcome.arg)
    /\ (strategy # None =>
            \A n \in 1..Len(Refs(strategy[1])) :
                Refs(strategy[1])[n] \notin AgentObjects \cup {book_info})
    /\ ((since.called /\ since.edited /\ prev.arg = outcome.arg) =>
            prev.val = outcome.val)

C7_Witness ==
    /\ since.called
    /\ since.edited
    /\ edits > 0
    /\ Returned
    /\ outcome.arg = MakeDict(Some(Romance), None, None, None)
    /\ heap[strategy[1].promotional_channels] # Value.promotional_channels

\* C8: a call that ran while other threads were inside the method has the
\* outcome it has on an agent used by no one else.
C8_ThreadsAsAlone ==
    \A t \in DOMAIN pc :
        pc[t] = "done" =>
            /\ result[t].exc = RunAlone(result[t].arg).exc
            /\ result[t].val = RunAlone(result[t].arg).val

C8_Witness ==
    /\ DOMAIN pc # {}
    /\ pc[1] = "done" /\ pc[2] = "done"
    /\ result[1].overlapped /\ result[2].overlapped
    /\ result[1].arg = MakeDict(Some(Fantasy), Some(Epic), None, None)
    /\ result[2].arg = MakeDict(Some(Romance), None, None, None)
    /\ result[1].exc = NoExc /\ result[2].exc = NoExc

\* C9: the launch_timeline of every strategy is the same mapping of the four
\* phases to their activities, whatever the genre and the tone.
C9_TimelineFixed ==
    Returned =>
        /\ DOMAIN Value.launch_timeline =
            {"Pre-launch (4 weeks)", "Launch week", "Post-launch (2 weeks)", "Ongoing"}
        /\ Value.launch_timeline["Pre-launch (4 weeks)"] =
            "Social media teasers, influencer outreach"
        /\ Value.launch_timeline["Launch week"] =
            "Major promotional push, book blogger reviews"
        /\ Value.launch_timeline["Post-launch (2 weeks)"] =
            "Sustained social media, reader engagement"
        /\ Value.launch_timeline["Ongoing"] =
            "Community building, reader feedback integration"

C9_Witness ==
    /\ Returned
    /\ outcome.arg = MakeDict(Some(Romance), None, None, None)
    /\ Cardinality(DOMAIN Value.launch_timeline) = 4

\* C10: budget_allocation has one entry per returned channel, and its values
\* sum to 30 + 15 * (channels - 1): 105 for a genre of the table, 60 for any
\* other or none, never 100; no channel gets 25 or 20.
RECURSIVE SumValues(_)
SumValues(d) ==
    IF DOMAIN d = {} THEN 0
    ELSE LET k == CHOOSE x \in DOMAIN d : TRUE
         IN  d[k] + SumValues([x \in DOMAIN d \ {k} |-> d[x]])
C10_BudgetSum ==
    Returned =>
        LET channels == Value.promotional_channels
            budget == Value.budget_allocation
        IN  /\ DOMAIN budget = {channels[i] : i \in 1..Len(channels)}
            /\ Cardinality(DOMAIN budget) = Len(channels)
            /\ SumValues(budget) = 30 + 15 * (Len(channels) - 1)
            /\ SumValues(budget) =
                    IF GenreOf(outcome.arg) \in TableGenres THEN 105 ELSE 60
            /\ SumValues(budget) # total_budget
            /\ \A c \in DOMAIN budget : budget[c] \notin {25, 20}

C10_Witness ==
    /\ Returned
    /\ outcome.arg = MakeDict(Some(Business), None, None, None)
    /\ SumValues(Value.budget_allocation) = 105
====
